---- MODULE Spec2Model ----
(***************************************************************************)
(* Counting and block-coding core of tongrams_estimation:                  *)
(*   - ngrams_hash_block  (include/counting/ngrams_hash_block.hpp)         *)
(*   - fc::writer and fc::ngrams_block (include/front_coding.hpp)          *)
(* The accumulator is explored under Spec, the front-coding codec under    *)
(* SpecCodec.  Collaborators whose code is not part of the sources at hand *)
(* (comparators, the linear prober, the record store, the bit vector, the  *)
(* radix sorter, the driver) are modelled from their documented contract   *)
(* and are marked as such where they are defined.                          *)
(***************************************************************************)
EXTENDS Integers, Sequences, FiniteSets, TLC

(***************************************************************************)
(* Bounds of the exploration.                                              *)
(***************************************************************************)
\* order of the n-grams (number of word ids per n-gram)
N == 3
\* word ids of the n-grams range over 0..MaxWordId
MaxWordId == 1
\* capacities passed to init range over 1..MaxCap
MaxCap == 2
\* number of find_or_insert calls explored on one accumulator
MaxCalls == 4
\* offsets of the driver's hash function range over 0..MaxHashOff
MaxHashOff == 0
\* the inputs are drawn from the MaxKeys first n-grams (in the order of Code)
MaxKeys == 5
\* payloads of the records given to the writer range over 1..MaxCount
MaxCount == 2
\* number of records given to one write_block call: 1..MaxLen
MaxLen == 3
\* the statistics given to the writer may overestimate: max_word_id up to
\* MaxStatWord, max_count up to MaxStatCount
MaxStatWord == 2
MaxStatCount == 2
\* size of a block in bytes (64 MiB in the build, scaled down here)
BLOCK_BYTES == 2
\* a block may be opened with any word width in 0..MaxHeaderWidth and any
\* record count in 1..MaxLen + 1
MaxHeaderWidth == 4

WordIds == 0..MaxWordId
Ngrams == [1..N -> WordIds]
Comparators == {"prefix", "context"}

Max(a, b) == IF a >= b THEN a ELSE b

\* position of an n-gram in the enumeration of all n-grams
RECURSIVE Code(_, _)
Code(key, i) ==
    IF i = 0 THEN 0 ELSE Code(key, i - 1) * (MaxWordId + 1) + key[i]

Keys == {k \in Ngrams : Code(k, N) < MaxKeys}

(***************************************************************************)
(* Comparator capability set: order, begin, end, advance, next, lcp,       *)
(* compare.  Prefix order walks the components left to right, context      *)
(* order right to left.  Component i (0-based) of n-gram x is x[i + 1].    *)
(***************************************************************************)
CmpBegin(cmp) == IF cmp = "prefix" THEN 0 ELSE N - 1
CmpEnd(cmp) == IF cmp = "prefix" THEN N - 1 ELSE 0
CmpNext(cmp, i) == IF cmp = "prefix" THEN i + 1 ELSE i - 1
CmpAdvance(cmp, i, k) == IF cmp = "prefix" THEN i + k ELSE i - k

\* the k-th component (k = 0..N-1) in the comparator's traversal order
CmpAt(cmp, k) == CmpAdvance(cmp, CmpBegin(cmp), k)

RECURSIVE LcpFrom(_, _, _, _)
LcpFrom(cmp, x, y, k) ==
    IF k = N THEN N
    ELSE IF x[CmpAt(cmp, k) + 1] # y[CmpAt(cmp, k) + 1] THEN k
    ELSE LcpFrom(cmp, x, y, k + 1)

\* number of leading (in comparator order) components on which x and y agree
Lcp(cmp, x, y) == LcpFrom(cmp, x, y, 0)

\* sign of the comparison of x and y
Compare(cmp, x, y) ==
    LET l == Lcp(cmp, x, y) IN
    IF l = N THEN 0
    ELSE IF x[CmpAt(cmp, l) + 1] < y[CmpAt(cmp, l) + 1] THEN -1 ELSE 1

\* comparator(x, y): strict "comes before"
Less(cmp, x, y) == Compare(cmp, x, y) < 0

(***************************************************************************)
(* Accumulator state (ngrams_hash_block) and its driver.                   *)
(***************************************************************************)
VARIABLES
    LSD_RADIX_SORT, \* build flag: radix sort over records / indirect sort
    hash_seed,      \* the driver's hash function (hint of an n-gram)
    phase,          \* "constructed", "ready", "incr", "sorted"
    m_size,         \* number of stored n-grams
    m_num_bytes,    \* bytes of the word ids of one n-gram
    m_prober,       \* prober state left by the last find_or_insert
    m_data,         \* bucket table: n-gram id or invalid_ngram_id per bucket
    m_block,        \* record store: memory (n-gram, value per id) and stats
    m_index,        \* permutation built by the indirect sort
    at,             \* output parameter of the last find_or_insert
    ret,            \* return value of the last find_or_insert
    calls,          \* history: the calls made, with their outcome
    before_sort,    \* history: the record store as it was when sort began
    sort_cmp        \* history: the comparator given to sort

acc_vars == <<LSD_RADIX_SORT, hash_seed, phase, m_size, m_num_bytes, m_prober,
              m_data, m_block, m_index, at, ret, calls, before_sort, sort_cmp>>

(***************************************************************************)
(* State of the front-coding codec (fc::writer, fc::ngrams_block).         *)
(***************************************************************************)
VARIABLES
    m_comparator,    \* comparator of the writer and of the reader
    L,               \* the run [begin, end) given to write_block
    n,               \* argument n of write_block
    stats,           \* argument stats of write_block
    wpc,             \* position in write_block: "idle", "loop", "done"
    w, v,            \* bit widths of a word id and of a payload
    m_buffer,        \* bit_vector_builder: bits and size
    ngrams_in_block, \* records in the block being filled
    written,         \* local of write_block
    encoded,         \* loop counter of write_block
    begin,           \* iterator of write_block: index into L
    prev_ptr,        \* previous record
    os,              \* the output stream: the chunks written so far
    enc,             \* history: per record, its block, bit offset and lcp field
    rblk,            \* number of blocks of os the reader has opened
    block,           \* fc::ngrams_block being read
    fc_it,           \* its fc_iterator
    decoded          \* history: the records the iterator was dereferenced to

codec_vars == <<m_comparator, L, n, stats, wpc, w, v, m_buffer, ngrams_in_block,
                written, encoded, begin, prev_ptr, os, enc, rblk, block,
                fc_it, decoded>>

(***************************************************************************)
(* State of a call of fc::ngrams_block::is_sorted<C>(begin, end).          *)
(***************************************************************************)
VARIABLES
    sorted_check     \* range: the records that iterating [begin, end) yields,
                     \* C: the comparator, pc: "idle", "loop", "returned",
                     \* it, i, prev_ptr, ret: the locals, cerr: the messages

check_vars == <<sorted_check>>

(***************************************************************************)
(* State of find_or_insert calls made by several threads on one            *)
(* accumulator.                                                            *)
(***************************************************************************)
VARIABLES
    threads,         \* per thread: pc, the argument key, the locals start and
                     \* it, id (the value of m_size++), the output at and
                     \* the return value ret
    interleaved      \* history: a call began while another was under way

race_vars == <<threads, interleaved>>

invalid_ngram_id == -1
\* sizeof(word_id)
WordBytes == 4

\* probing_space_multiplier = 1.5; truncation of size * 1.5 to uint64_t
Buckets(size) == (3 * size) \div 2

\* std::vector::resize(n, fill): keeps the first n elements, fills new ones
Resize(vec, len, fill) ==
    [i \in 1..len |-> IF i <= Len(vec) THEN vec[i] ELSE fill]

buckets == Len(m_data)
size == m_size

DefaultBlock ==
    [order |-> 0, records |-> 0, memory |-> <<>>,
     stats |-> [max_word_id |-> 0, max_count |-> 0]]

\* the hint the driver passes with an n-gram: a hash of its word ids
Hint(key) == hash_seed.mul * Code(key, N) + hash_seed.off

\* linear prober: init(hint, buckets), operator*, operator++
ProberInit(hint, universe) ==
    [position |-> hint % universe, universe |-> universe]
ProberDeref(p) == p.position
ProberNext(p) == [p EXCEPT !.position = (p.position + 1) % p.universe]

\* m_block.access(at): the record of id at
Pointer(id) == m_block.memory[id + 1]

\* equal_to(ptr, key, m_num_bytes): the first m_num_bytes bytes are equal
EqualTo(x, key, num_bytes) ==
    \A i \in 1..(num_bytes \div WordBytes) : x[i] = key[i]

(***************************************************************************)
(* The probe loop of find_or_insert: from prober state p with starting     *)
(* bucket start, the outcome is "found" (an equal n-gram in bucket it),    *)
(* "full" (back at start) or "empty" (bucket it is free).                  *)
(***************************************************************************)
\* variant: the equality test is skipped, an occupied bucket never matches
RECURSIVE ProbeLoopNoCompare(_, _, _)
ProbeLoopNoCompare(p, start, key) ==
    LET it == ProberDeref(p) IN
    IF m_data[it + 1] = invalid_ngram_id
    THEN [kind |-> "empty", it |-> it, prober |-> p]
    ELSE LET q == ProberNext(p) IN
         IF ProberDeref(q) = start
         THEN [kind |-> "full", it |-> ProberDeref(q), prober |-> q]
         ELSE ProbeLoopNoCompare(q, start, key)

\* variant: the return on a full cycle is missing, the insert path is taken
RECURSIVE ProbeLoopNoReturn(_, _, _)
ProbeLoopNoReturn(p, start, key) ==
    LET it == ProberDeref(p) IN
    IF m_data[it + 1] = invalid_ngram_id
    THEN [kind |-> "empty", it |-> it, prober |-> p]
    ELSE IF EqualTo(Pointer(m_data[it + 1]).ngram, key, m_num_bytes)
    THEN [kind |-> "found", it |-> it, prober |-> p]
    ELSE LET q == ProberNext(p) IN
         IF ProberDeref(q) = start
         THEN [kind |-> "empty", it |-> ProberDeref(q), prober |-> q]
         ELSE ProbeLoopNoReturn(q, start, key)

\* variant: the test for the starting bucket comes before the advance
RECURSIVE ProbeLoopTestBeforeAdvance(_, _, _)
ProbeLoopTestBeforeAdvance(p, start, key) ==
    LET it == ProberDeref(p) IN
    IF m_data[it + 1] = invalid_ngram_id
    THEN [kind |-> "empty", it |-> it, prober |-> p]
    ELSE IF EqualTo(Pointer(m_data[it + 1]).ngram, key, m_num_bytes)
    THEN [kind |-> "found", it |-> it, prober |-> p]
    ELSE IF it = start
         THEN [kind |-> "full", it |-> it, prober |-> p]
         ELSE ProbeLoopTestBeforeAdvance(ProberNext(p), start, key)

\* variant: the prober is never advanced, an occupied bucket that holds
\* another n-gram is taken for the insert
ProbeLoopNoAdvance(p, start, key) ==
    LET it == ProberDeref(p) IN
    IF m_data[it + 1] = invalid_ngram_id
    THEN [kind |-> "empty", it |-> it, prober |-> p]
    ELSE IF EqualTo(Pointer(m_data[it + 1]).ngram, key, m_num_bytes)
    THEN [kind |-> "found", it |-> it, prober |-> p]
    ELSE [kind |-> "empty", it |-> it, prober |-> p]

RECURSIVE ProbeLoop(_, _, _)
ProbeLoop(p, start, key) ==
    LET it == ProberDeref(p) IN
    IF m_data[it + 1] = invalid_ngram_id
    THEN [kind |-> "empty", it |-> it, prober |-> p]
    ELSE IF EqualTo(Pointer(m_data[it + 1]).ngram, key, m_num_bytes)
    THEN [kind |-> "found", it |-> it, prober |-> p]
    ELSE LET q == ProberNext(p) IN
         IF ProberDeref(q) = start
         THEN [kind |-> "full", it |-> ProberDeref(q), prober |-> q]
         ELSE ProbeLoop(q, start, key)

\* m_block.set(at, begin, end, value): store the record, update statistics
RECURSIVE MaxWord(_, _)
MaxWord(key, i) == IF i = 0 THEN 0 ELSE Max(key[i], MaxWord(key, i - 1))

\* a record slot that was never written: zero bytes
ZeroRecord == [ngram |-> [i \in 1..N |-> 0], value |-> 0]

BlockSet(b, id, key, value) ==
    [b EXCEPT
        !.memory = [i \in 1..Max(Len(b.memory), id + 1) |->
                        IF i = id + 1 THEN [ngram |-> key, value |-> value]
                        ELSE IF i <= Len(b.memory) THEN b.memory[i]
                        ELSE ZeroRecord],
        !.stats = [max_word_id |-> Max(b.stats.max_word_id, MaxWord(key, N)),
                   max_count |-> Max(b.stats.max_count, value)]]

\* the id stored by m_data[it] = m_size++
NextIdPreIncrement == m_size + 1
NextId == m_size

\* Value(1): the payload of a newly inserted n-gram
InitialValueZero == 1 - 1
InitialValue == 1

AccInitState ==
    /\ LSD_RADIX_SORT \in BOOLEAN
    /\ hash_seed \in [mul : 0..1, off : 0..MaxHashOff]
    /\ phase = "constructed"
    /\ m_size = 0
    /\ m_num_bytes = 0
    /\ m_prober = [position |-> 0, universe |-> 0]
    /\ m_data = <<>>
    /\ m_block = DefaultBlock
    /\ m_index = <<>>
    /\ at = invalid_ngram_id
    /\ ret = FALSE
    /\ calls = <<>>
    /\ before_sort = <<>>
    /\ sort_cmp = "none"

\* init(ngram_order, size)
AccInit(capacity) ==
    /\ UNCHANGED <<codec_vars, check_vars, race_vars>>
    /\ phase = "constructed"
    /\ m_prober' = [position |-> 0, universe |-> 0]
    /\ m_num_bytes' = N * WordBytes
    /\ m_data' = Resize(m_data, Buckets(capacity), invalid_ngram_id)
    /\ m_block' = [m_block EXCEPT !.order = N, !.records = capacity]
    /\ phase' = "ready"
    /\ UNCHANGED <<LSD_RADIX_SORT, hash_seed, m_size, m_index, at, ret,
                   calls, before_sort, sort_cmp>>

\* find_or_insert(key, hint, at)
FindOrInsert(key) ==
    /\ UNCHANGED <<codec_vars, check_vars, race_vars>>
    /\ phase = "ready"
    /\ Len(calls) < MaxCalls
    /\ LET p0 == ProberInit(Hint(key), buckets)
           r == ProbeLoop(p0, ProberDeref(p0), key)
       IN
       /\ m_prober' = r.prober
       /\ CASE r.kind = "found" ->
                 /\ at' = m_data[r.it + 1]
                 /\ ret' = TRUE
                 /\ phase' = "incr"
                 /\ UNCHANGED <<m_size, m_data, m_block>>
            [] r.kind = "full" ->
                 /\ at' = invalid_ngram_id
                 /\ ret' = FALSE
                 /\ UNCHANGED <<phase, m_size, m_data, m_block>>
            [] r.kind = "empty" ->
                 /\ m_data' = [m_data EXCEPT ![r.it + 1] = NextId]
                 /\ m_size' = m_size + 1
                 /\ at' = m_data'[r.it + 1]
                 /\ m_block' = BlockSet(m_block, at', key, InitialValue)
                 /\ ret' = FALSE
                 /\ UNCHANGED phase
       /\ calls' = Append(calls, [key |-> key, existed |-> ret', at |-> at'])
    /\ UNCHANGED <<LSD_RADIX_SORT, hash_seed, m_num_bytes, m_index,
                   before_sort, sort_cmp>>

\* the driver's ++block[at] after a call that found the n-gram
Increment ==
    /\ UNCHANGED <<codec_vars, check_vars, race_vars>>
    /\ phase = "incr"
    /\ m_block' = [m_block EXCEPT !.memory[at + 1].value = @ + 1]
    /\ phase' = "ready"
    /\ UNCHANGED <<LSD_RADIX_SORT, hash_seed, m_size, m_num_bytes, m_prober,
                   m_data, m_index, at, ret, calls, before_sort, sort_cmp>>

(***************************************************************************)
(* sort(comparator).                                                       *)
(***************************************************************************)
\* std::sort of the ids by comparator(access(i), access(j))
RECURSIVE InsertId(_, _, _)
InsertId(s, x, cmp) ==
    IF s = <<>> THEN <<x>>
    ELSE IF Less(cmp, Pointer(x).ngram, Pointer(Head(s)).ngram)
         THEN <<x>> \o s
         ELSE <<Head(s)>> \o InsertId(Tail(s), x, cmp)

RECURSIVE SortIds(_, _)
SortIds(ids, cmp) ==
    IF ids = <<>> THEN <<>>
    ELSE InsertId(SortIds(Tail(ids), cmp), Head(ids), cmp)

\* variant: the index is left as the identity, the sort call is missing
IndirectSortUnsorted(cmp) == [i \in 1..size |-> i - 1]

\* variant: every slot of the index is initialised to 0 instead of i
IndirectSortZeroIndex(cmp) == SortIds([i \in 1..size |-> 0], cmp)

\* m_index.resize(size()); m_index[i] = i; sort(m_index, comparator)
IndirectSort(cmp) == SortIds([i \in 1..size |-> i - 1], cmp)

\* one stable counting pass of the radix sorter on component c
RECURSIVE CountingPass(_, _, _, _)
CountingPass(recs, c, d, max_digit) ==
    IF d > max_digit THEN <<>>
    ELSE SelectSeq(recs, LAMBDA r : r.ngram[c + 1] = d)
         \o CountingPass(recs, c, d + 1, max_digit)

\* passes from the least significant component (k = N-1) to the most (k = 0)
RECURSIVE RadixPasses(_, _, _, _)
RadixPasses(recs, cmp, k, max_digit) ==
    IF k < 0 THEN recs
    ELSE RadixPasses(CountingPass(recs, CmpAt(cmp, k), 0, max_digit),
                     cmp, k - 1, max_digit)

\* parallel_lsd_radix_sorter(max_digit, num_digits).sort(begin, begin + size())
RadixSort(cmp) ==
    RadixPasses(SubSeq(m_block.memory, 1, size), cmp, m_block.order - 1,
                m_block.stats.max_word_id)

Sort(cmp) ==
    /\ UNCHANGED <<codec_vars, check_vars, race_vars>>
    /\ phase = "ready"
    /\ size > 0
    /\ before_sort' = m_block.memory
    /\ sort_cmp' = cmp
    /\ IF LSD_RADIX_SORT
       THEN /\ m_block' = [m_block EXCEPT !.memory = RadixSort(cmp)]
            /\ UNCHANGED m_index
       ELSE /\ m_index' = IndirectSort(cmp)
            /\ UNCHANGED m_block
    /\ phase' = "sorted"
    /\ UNCHANGED <<LSD_RADIX_SORT, hash_seed, m_size, m_num_bytes, m_prober,
                   m_data, at, ret, calls>>

\* enumerator: operator* at position pos, and the whole iteration
Deref(pos) ==
    IF LSD_RADIX_SORT THEN Pointer(pos) ELSE Pointer(m_index[pos + 1])

Enumerate == [k \in 1..size |-> Deref(k - 1)]

(***************************************************************************)
(* swap, release_hash_index and release.                                   *)
(***************************************************************************)
\* ngrams_hash_block(): m_size(0), m_num_bytes(0), resize(0)
Constructed ==
    [m_size |-> 0, m_num_bytes |-> 0, m_data |-> <<>>,
     m_block |-> DefaultBlock, m_index |-> <<>>]

\* variant: m_size is left out of the swap
SwapNoSize(other) ==
    [m_size |-> m_size, m_num_bytes |-> other.m_num_bytes,
     m_data |-> other.m_data, m_block |-> other.m_block,
     m_index |-> other.m_index]

\* swap(other): what this object holds afterwards; m_prober and m_equal_to
\* are not swapped
Swap(other) ==
    [m_size |-> other.m_size, m_num_bytes |-> other.m_num_bytes,
     m_data |-> other.m_data, m_block |-> other.m_block,
     m_index |-> other.m_index]

\* release_hash_index(): the bucket table is dropped; no find_or_insert
\* may follow on the empty table
ReleaseHashIndex ==
    /\ UNCHANGED <<codec_vars, check_vars, race_vars>>
    /\ phase \in {"ready", "sorted"}
    /\ m_data' = <<>>
    /\ phase' = IF phase = "ready" THEN "indexless" ELSE phase
    /\ UNCHANGED <<LSD_RADIX_SORT, hash_seed, m_size, m_num_bytes, m_prober,
                   m_block, m_index, at, ret, calls, before_sort, sort_cmp>>

\* release(): ngrams_hash_block().swap(*this); the histories start anew
Release ==
    /\ UNCHANGED <<codec_vars, check_vars, race_vars>>
    /\ phase # "incr"
    /\ LET this == Swap(Constructed) IN
       /\ m_size' = this.m_size
       /\ m_num_bytes' = this.m_num_bytes
       /\ m_data' = this.m_data
       /\ m_block' = this.m_block
       /\ m_index' = this.m_index
    /\ phase' = "constructed"
    /\ calls' = <<>>
    /\ before_sort' = <<>>
    /\ sort_cmp' = "none"
    /\ UNCHANGED <<LSD_RADIX_SORT, hash_seed, m_prober, at, ret>>

(***************************************************************************)
(* Front-coding codec: fc::writer::write_block and the reader              *)
(* fc::ngrams_block with its fc_iterator.                                  *)
(***************************************************************************)
BLOCK_BITS == 8 * BLOCK_BYTES

RECURSIVE Pow2(_)
Pow2(k) == IF k = 0 THEN 1 ELSE 2 * Pow2(k - 1)

RECURSIVE CeilLog2From(_, _)
CeilLog2From(x, k) == IF Pow2(k) >= x THEN k ELSE CeilLog2From(x, k + 1)

\* util::ceil_log2(x): the least k with 2^k >= x
CeilLog2(x) == CeilLog2From(x, 0)

\* writer(N): m_l(ceil_log2(N + 1))
m_l == CeilLog2(N + 1)

\* bit j (0 = least significant) of val
BitAt(val, j) == (val \div Pow2(j)) % 2

EmptyBuffer == [bits |-> <<>>, size |-> 0]

(***************************************************************************)
(* bit_vector_builder::append_bits(val, len): the bits of val are or-ed    *)
(* into the vector from position size on, least significant first, and     *)
(* size grows by len.  Bits of val above len are not masked (the builder   *)
(* only asserts that there are none).  Valid within one 64-bit word.       *)
(***************************************************************************)
AppendBits(b, val, len) ==
    IF len = 0 THEN b
    ELSE LET span == Max(len, CeilLog2(val + 1))
             newlen == Max(Len(b.bits), b.size + span)
             old(q) == IF q <= Len(b.bits) THEN b.bits[q] ELSE 0
             new(q) == IF q > b.size THEN BitAt(val, q - b.size - 1) ELSE 0
         IN [bits |-> [q \in 1..newlen |->
                          IF old(q) + new(q) > 0 THEN 1 ELSE 0],
             size |-> b.size + len]

RECURSIVE ExplicitWords(_, _, _, _)
ExplicitWords(b, ptr, i, ww) ==
    IF i = N THEN b
    ELSE ExplicitWords(AppendBits(b, ptr.ngram[i + 1], ww), ptr, i + 1, ww)

\* explicit_write(ptr): N word ids in w bits each, then the payload in v bits
ExplicitWrite(b, ptr, ww, vv) ==
    AppendBits(ExplicitWords(b, ptr, 0, ww), ptr.value, vv)

\* the loop for (;; next(i)) { append ptr[i]; if (i == end()) break; }
RECURSIVE SuffixWords(_, _, _, _, _)
SuffixWords(b, ptr, cmp, i, ww) ==
    LET b1 == AppendBits(b, ptr.ngram[i + 1], ww) IN
    IF i = CmpEnd(cmp) THEN b1
    ELSE SuffixWords(b1, ptr, cmp, CmpNext(cmp, i), ww)

\* variant: the lcp field counts from one
LcpWriteOneBased(b, ptr, prev, cmp, ww, vv) ==
    LET lcp == Lcp(cmp, ptr.ngram, prev.ngram)
        b1 == AppendBits(b, lcp + 1, m_l)
    IN IF lcp = 0 THEN ExplicitWrite(b1, ptr, ww, vv)
       ELSE AppendBits(
                SuffixWords(b1, ptr, cmp,
                            CmpAdvance(cmp, CmpBegin(cmp), lcp), ww),
                ptr.value, vv)

\* the else branch of the loop body: lcp field, then the record
LcpWrite(b, ptr, prev, cmp, ww, vv) ==
    LET lcp == Lcp(cmp, ptr.ngram, prev.ngram)
        b1 == AppendBits(b, lcp, m_l)
    IN IF lcp = 0 THEN ExplicitWrite(b1, ptr, ww, vv)
       ELSE AppendBits(
                SuffixWords(b1, ptr, cmp,
                            CmpAdvance(cmp, CmpBegin(cmp), lcp), ww),
                ptr.value, vv)

\* chunks of the output stream
Pod(bytes, val) ==
    [tag |-> "pod", bytes |-> bytes, val |-> val, bits |-> <<>>, pad |-> 0]
Data(bits, bytes, pad) ==
    [tag |-> "data", bytes |-> bytes, val |-> 0,
     bits |-> SubSeq(bits, 1, IF Len(bits) < 8 * bytes THEN Len(bits)
                              ELSE 8 * bytes),
     pad |-> pad]

\* a save that leaves out the record count
SaveNoCount(count, bits, bytes, pad) == <<Data(bits, bytes, pad)>>

\* save(bits, bytes): the record count, then bytes bytes of the buffer
Save(count, bits, bytes, pad) == <<Pod(8, count), Data(bits, bytes, pad)>>

\* max_record_size = m_l + N * w + v
MaxRecordSize(ww, vv) == m_l + N * ww + vv

\* variant: the test leaves the lcp field out of the worst-case record
MustFlushNoLcp ==
    /\ m_buffer.size <= BLOCK_BITS
    /\ BLOCK_BITS - m_buffer.size < N * w + v

\* BLOCK_BITS - m_buffer.size() < max_record_size, in unsigned arithmetic
MustFlush ==
    /\ m_buffer.size <= BLOCK_BITS
    /\ BLOCK_BITS - m_buffer.size < MaxRecordSize(w, v)

Records == [ngram : Keys, value : 1..MaxCount]

\* the non-empty runs that are strictly ordered by the comparator
SortedRuns(cmp) ==
    UNION {{s \in [1..len -> Records] :
               \A k \in 1..(len - 1) :
                   Compare(cmp, s[k].ngram, s[k + 1].ngram) < 0} :
           len \in 1..MaxLen}

RunMaxWord(run) ==
    CHOOSE m \in WordIds :
        /\ \E k \in 1..Len(run) : MaxWord(run[k].ngram, N) = m
        /\ \A k \in 1..Len(run) : MaxWord(run[k].ngram, N) <= m
RunMaxCount(run) ==
    CHOOSE c \in 1..MaxCount :
        /\ \E k \in 1..Len(run) : run[k].value = c
        /\ \A k \in 1..Len(run) : run[k].value <= c

\* ngrams_block() and an iterator that is not bound to a block yet
NoBlock ==
    [m_memory |-> Data(<<>>, 0, 0), m_size |-> 0, m_l |-> 0, m_w |-> 0,
     m_v |-> 0]
NoIterator ==
    [pos |-> 0, m_back |-> ZeroRecord, m_pos |-> 0, m_size |-> 0,
     overrun |-> FALSE, lcp |-> -1]

NoRun ==
    /\ m_comparator = "prefix"
    /\ L = <<>>
    /\ n = 0
    /\ stats = [max_word_id |-> 0, max_count |-> 0]

CodecIdle ==
    /\ wpc = "idle"
    /\ w = 0 /\ v = 0
    /\ m_buffer = EmptyBuffer
    /\ ngrams_in_block = 0
    /\ written = 0
    /\ encoded = 0
    /\ begin = 1
    /\ prev_ptr = ZeroRecord
    /\ os = <<>>
    /\ enc = <<>>
    /\ rblk = 0
    /\ block = NoBlock
    /\ fc_it = NoIterator
    /\ decoded = <<>>

\* the state before write_block is called on a run with its statistics
CodecInitState ==
    /\ m_comparator \in Comparators
    /\ L \in SortedRuns(m_comparator)
    /\ n = Len(L)
    /\ stats \in [max_word_id : RunMaxWord(L)..MaxStatWord,
                  max_count : RunMaxCount(L)..MaxStatCount]
    /\ MaxRecordSize(CeilLog2(stats.max_word_id + 1),
                     CeilLog2(stats.max_count + 1)) <= BLOCK_BITS
    /\ CodecIdle

\* write_block up to the loop: header, buffer, first record
WriteBlockBegin ==
    /\ UNCHANGED <<acc_vars, check_vars, race_vars>>
    /\ wpc = "idle"
    /\ w' = CeilLog2(stats.max_word_id + 1)
    /\ v' = CeilLog2(stats.max_count + 1)
    /\ os' = os \o <<Pod(1, w'), Pod(1, v')>>
    /\ m_buffer' = ExplicitWrite(EmptyBuffer, L[begin], w', v')
    /\ ngrams_in_block' = 1
    /\ prev_ptr' = L[begin]
    /\ begin' = begin + 1
    /\ written' = 0
    /\ encoded' = 0
    /\ enc' = <<[block |-> 1, start |-> 0, lcp |-> -1]>>
    /\ wpc' = "loop"
    /\ UNCHANGED <<m_comparator, L, n, stats, rblk, block, fc_it, decoded>>

\* number of blocks saved so far
Saved == Cardinality({k \in 1..Len(os) : os[k].tag = "data"})

\* a flush branch that codes the record against its predecessor
FlushWriteLcp(ptr) ==
    LcpWrite(EmptyBuffer, ptr, prev_ptr, m_comparator, w, v)

\* the flush branch after save: m_buffer.init(); explicit_write(ptr)
FlushWrite(ptr) == ExplicitWrite(EmptyBuffer, ptr, w, v)

\* a flush branch that does not reset the record counter
FlushCountNoReset == ngrams_in_block + 1

\* ngrams_in_block = 0 in the flush branch, then ++ngrams_in_block
FlushCount == 0 + 1

\* a last block padded like the flushed ones
LastBlockBytesPadded == BLOCK_BYTES

\* std::streamsize bytes = (m_buffer.size() + 7) / 8
LastBlockBytes == (m_buffer.size + 7) \div 8

\* one iteration of the loop of write_block
WriteBlockStep ==
    /\ UNCHANGED <<acc_vars, check_vars, race_vars>>
    /\ wpc = "loop"
    /\ begin <= Len(L)
    /\ LET ptr == L[begin] IN
       /\ IF MustFlush
          THEN /\ \E pad \in {0, 1} :
                    os' = os \o Save(ngrams_in_block, m_buffer.bits,
                                     BLOCK_BYTES, pad)
               /\ m_buffer' = FlushWrite(ptr)
               /\ written' = encoded
               /\ ngrams_in_block' = FlushCount
               /\ enc' = Append(enc, [block |-> Saved + 2, start |-> 0,
                                      lcp |-> -1])
          ELSE /\ m_buffer' = LcpWrite(m_buffer, ptr, prev_ptr,
                                       m_comparator, w, v)
               /\ ngrams_in_block' = ngrams_in_block + 1
               /\ enc' = Append(enc, [block |-> Saved + 1,
                                      start |-> m_buffer.size,
                                      lcp |-> Lcp(m_comparator, ptr.ngram,
                                                  prev_ptr.ngram)])
               /\ UNCHANGED <<os, written>>
       /\ prev_ptr' = ptr
    /\ begin' = begin + 1
    /\ encoded' = encoded + 1
    /\ UNCHANGED <<m_comparator, L, n, stats, wpc, w, v, rblk, block, fc_it,
                   decoded>>

\* after the loop: save last block if needed
WriteBlockEnd ==
    /\ UNCHANGED <<acc_vars, check_vars, race_vars>>
    /\ wpc = "loop"
    /\ begin > Len(L)
    /\ IF written # n
       THEN os' = os \o Save(ngrams_in_block, m_buffer.bits,
                             LastBlockBytes, 0)
       ELSE UNCHANGED os
    /\ wpc' = "done"
    /\ UNCHANGED <<m_comparator, L, n, stats, w, v, m_buffer, ngrams_in_block,
                   written, encoded, begin, prev_ptr, enc, rblk, block, fc_it,
                   decoded>>

(***************************************************************************)
(* Reader: fc::ngrams_block and its fc_iterator.                           *)
(***************************************************************************)
\* bit q (0-based) of the loaded memory; the padding of a block is whatever
\* the writer's buffer held behind its last word
MemBit(mem, q) ==
    IF q < Len(mem.bits) THEN mem.bits[q + 1]
    ELSE IF q < 8 * mem.bytes THEN mem.pad ELSE 0

RECURSIVE BitsValue(_, _, _)
BitsValue(mem, pos, len) ==
    IF len = 0 THEN 0
    ELSE MemBit(mem, pos) + 2 * BitsValue(mem, pos + 1, len - 1)

\* bits_iterator::get_bits(len): the value read, the new position, and
\* whether the read went past the end of the memory
GetBits(mem, pos, len) ==
    [val |-> BitsValue(mem, pos, len), pos |-> pos + len,
     over |-> pos + len > 8 * mem.bytes]

\* word_id w(m_it.get_bits(m_w)); m_back.store(&w, W) at component idx
ReadWord(st, blk, idx) ==
    LET g == GetBits(blk.m_memory, st.pos, blk.m_w) IN
    [st EXCEPT !.pos = g.pos,
               !.overrun = @ \/ g.over,
               !.m_back.ngram =
                   IF idx \in 0..(N - 1) THEN [@ EXCEPT ![idx + 1] = g.val]
                   ELSE @]

\* decode_value()
DecodeValue(st, blk) ==
    LET g == GetBits(blk.m_memory, st.pos, blk.m_v) IN
    [st EXCEPT !.pos = g.pos,
               !.overrun = @ \/ g.over,
               !.m_back.value = g.val]

RECURSIVE DecodeExplicitFrom(_, _, _)
DecodeExplicitFrom(st, blk, i) ==
    IF i = N THEN DecodeValue(st, blk)
    ELSE DecodeExplicitFrom(ReadWord(st, blk, i), blk, i + 1)

\* decode_explicit(): N word ids from component 0 on, then the payload
DecodeExplicit(st, blk) == DecodeExplicitFrom(st, blk, 0)

\* for (j = 0; j < N - lcp; ++j) { store at i; next(i); }
RECURSIVE DecodeSuffix(_, _, _, _, _, _)
DecodeSuffix(st, blk, cmp, i, j, lcp) ==
    IF j >= N - lcp THEN st
    ELSE DecodeSuffix(ReadWord(st, blk, i), blk, cmp, CmpNext(cmp, i),
                      j + 1, lcp)

\* a decode that stores the suffix from the comparator's first component
DecodeFromBegin(st, blk, cmp) ==
    LET g == GetBits(blk.m_memory, st.pos, blk.m_l)
        st1 == [st EXCEPT !.pos = g.pos, !.overrun = @ \/ g.over,
                          !.lcp = g.val]
    IN IF g.val = 0 THEN DecodeExplicit(st1, blk)
       ELSE DecodeValue(
                DecodeSuffix(st1, blk, cmp, CmpBegin(cmp), 0, g.val), blk)

\* decode()
Decode(st, blk, cmp) ==
    LET g == GetBits(blk.m_memory, st.pos, blk.m_l)
        st1 == [st EXCEPT !.pos = g.pos, !.overrun = @ \/ g.over,
                          !.lcp = g.val]
    IN IF g.val = 0 THEN DecodeExplicit(st1, blk)
       ELSE DecodeValue(
                DecodeSuffix(st1, blk, cmp,
                             CmpAdvance(cmp, CmpBegin(cmp), g.val), 0, g.val),
                blk)

\* fc_iterator(N, pos, size, block)
FcIterator(pos, count, blk) ==
    LET st0 == [pos |-> 0, m_back |-> ZeroRecord, m_pos |-> pos,
                m_size |-> count, overrun |-> FALSE, lcp |-> -1]
    IN IF pos # count THEN DecodeExplicit(st0, blk) ELSE st0

\* variant: the test for the last record is missing
FcAdvanceAlwaysDecode(st, blk, cmp) ==
    [Decode(st, blk, cmp) EXCEPT !.m_pos = @ + 1]

\* operator++
FcAdvance(st, blk, cmp) ==
    IF st.m_pos = st.m_size - 1
    THEN [st EXCEPT !.m_pos = @ + 1]
    ELSE [Decode(st, blk, cmp) EXCEPT !.m_pos = @ + 1]

\* operator*: the record held in m_back
FcDeref(st) == st.m_back

\* position in os of the k-th block's bits
DataIndex(k) ==
    CHOOSE i \in 1..Len(os) :
        /\ os[i].tag = "data"
        /\ Cardinality({j \in 1..i : os[j].tag = "data"}) = k

\* ngrams_block(N, size, w, v), read(is, bytes) and begin() on the next
\* block of the stream; w and v are those the run was written with
ReadBlock ==
    /\ UNCHANGED <<acc_vars, check_vars, race_vars>>
    /\ wpc = "done"
    /\ rblk < Saved
    /\ fc_it.m_pos = fc_it.m_size
    /\ rblk' = rblk + 1
    /\ block' = [m_memory |-> os[DataIndex(rblk')],
                 m_size |-> os[DataIndex(rblk') - 1].val,
                 m_l |-> CeilLog2(N + 1),
                 m_w |-> os[1].val,
                 m_v |-> os[2].val]
    /\ fc_it' = FcIterator(0, block'.m_size, block')
    /\ UNCHANGED <<m_comparator, L, n, stats, wpc, w, v, m_buffer,
                   ngrams_in_block, written, encoded, begin, prev_ptr, os,
                   enc, decoded>>

\* ngrams_block(N, count, ww, vv), read(is, bytes) and begin() on the next
\* block of the stream, for header values that need not be those the block
\* was written with; a begin() that would read past the memory of the block
\* is left out
ReadBlockAs(count, ww, vv) ==
    /\ UNCHANGED <<acc_vars, check_vars, race_vars>>
    /\ wpc = "done"
    /\ rblk < Saved
    /\ fc_it.m_pos = fc_it.m_size
    /\ rblk' = rblk + 1
    /\ block' = [m_memory |-> os[DataIndex(rblk')],
                 m_size |-> count,
                 m_l |-> CeilLog2(N + 1),
                 m_w |-> ww,
                 m_v |-> vv]
    /\ fc_it' = FcIterator(0, block'.m_size, block')
    /\ ~fc_it'.overrun
    /\ UNCHANGED <<m_comparator, L, n, stats, wpc, w, v, m_buffer,
                   ngrams_in_block, written, encoded, begin, prev_ptr, os,
                   enc, decoded>>

\* one round of for (it = begin(); it != end(); ++it) use(*it)
ReadNext ==
    /\ UNCHANGED <<acc_vars, check_vars, race_vars>>
    /\ rblk > 0
    /\ fc_it.m_pos # fc_it.m_size
    /\ decoded' = Append(decoded, [block |-> rblk, rec |-> FcDeref(fc_it),
                                   lcp |-> fc_it.lcp])
    /\ fc_it' = FcAdvance(fc_it, block, m_comparator)
    /\ UNCHANGED <<m_comparator, L, n, stats, wpc, w, v, m_buffer,
                   ngrams_in_block, written, encoded, begin, prev_ptr, os,
                   enc, rblk, block>>

(***************************************************************************)
(* find_or_insert step by step, one memory access of the shared members    *)
(* m_prober, m_data, m_size and m_block per step, for calls of several      *)
(* threads.                                                                *)
(***************************************************************************)
Threads == {1, 2}

IdleThread ==
    [pc |-> "idle", key |-> <<>>, start |-> 0, it |-> 0, id |-> 0,
     at |-> invalid_ngram_id, ret |-> FALSE]

\* no thread has called find_or_insert
RaceIdle ==
    /\ threads = [t \in Threads |-> IdleThread]
    /\ interleaved = FALSE

\* thread t is inside a call
Running(t) == threads[t].pc \notin {"idle", "done"}

\* what the step leaves alone: the members find_or_insert does not touch and
\* the driver's variables
RaceFrame ==
    UNCHANGED <<LSD_RADIX_SORT, hash_seed, phase, m_num_bytes, m_index, at,
                ret, calls, before_sort, sort_cmp, codec_vars, check_vars>>

\* thread t calls find_or_insert(key, hint, at): m_prober.init(hint, buckets())
RaceBegin(t, key) ==
    /\ RaceFrame
    /\ phase = "ready"
    /\ threads[t].pc = "idle"
    /\ m_prober' = ProberInit(Hint(key), buckets)
    /\ threads' = [threads EXCEPT ![t].pc = "start", ![t].key = key]
    /\ interleaved' = (interleaved \/ \E u \in Threads \ {t} : Running(u))
    /\ UNCHANGED <<m_size, m_data, m_block>>

\* iterator start = *m_prober; iterator it = start
RaceStart(t) ==
    /\ RaceFrame
    /\ threads[t].pc = "start"
    /\ threads' = [threads EXCEPT ![t].pc = "test",
                                  ![t].start = ProberDeref(m_prober),
                                  ![t].it = ProberDeref(m_prober)]
    /\ UNCHANGED <<m_prober, m_size, m_data, m_block, interleaved>>

\* while (m_data[it] != invalid_ngram_id)
RaceTest(t) ==
    /\ RaceFrame
    /\ threads[t].pc = "test"
    /\ threads' = [threads EXCEPT
           ![t].pc = IF m_data[threads[t].it + 1] = invalid_ngram_id
                     THEN "load_size" ELSE "equal"]
    /\ UNCHANGED <<m_prober, m_size, m_data, m_block, interleaved>>

\* the record slot of id has not been written by m_block.set
Unwritten(id) ==
    \/ id + 1 > Len(m_block.memory)
    \/ m_block.memory[id + 1] = ZeroRecord

\* equal = m_equal_to(pointer(m_data[it]).data, key, m_num_bytes); on equal,
\* at = m_data[it]; return true.  A slot that was never written holds
\* whatever the memory holds: the test can go either way.
RaceEqual(t) ==
    /\ RaceFrame
    /\ threads[t].pc = "equal"
    /\ LET id == m_data[threads[t].it + 1] IN
       \E equal \in BOOLEAN :
          /\ IF Unwritten(id) THEN TRUE
             ELSE equal = EqualTo(Pointer(id).ngram, threads[t].key,
                                  m_num_bytes)
          /\ threads' = IF equal
                        THEN [threads EXCEPT ![t].pc = "done",
                                             ![t].at = id,
                                             ![t].ret = TRUE]
                        ELSE [threads EXCEPT ![t].pc = "advance"]
    /\ UNCHANGED <<m_prober, m_size, m_data, m_block, interleaved>>

\* ++m_prober; it = *m_prober; if (it == start) { at = invalid_ngram_id;
\* return false; }
RaceAdvance(t) ==
    /\ RaceFrame
    /\ threads[t].pc = "advance"
    /\ m_prober' = ProberNext(m_prober)
    /\ threads' = IF ProberDeref(m_prober') = threads[t].start
                  THEN [threads EXCEPT ![t].pc = "done",
                                       ![t].it = ProberDeref(m_prober'),
                                       ![t].at = invalid_ngram_id,
                                       ![t].ret = FALSE]
                  ELSE [threads EXCEPT ![t].pc = "test",
                                       ![t].it = ProberDeref(m_prober')]
    /\ UNCHANGED <<m_size, m_data, m_block, interleaved>>

\* m_size++: the value read
RaceLoadSize(t) ==
    /\ RaceFrame
    /\ threads[t].pc = "load_size"
    /\ threads' = [threads EXCEPT ![t].pc = "store_size", ![t].id = m_size]
    /\ UNCHANGED <<m_prober, m_size, m_data, m_block, interleaved>>

\* variant: m_size is written back as it was read
SizeAfterNoIncrement(id) == id
\* m_size++: the value written
SizeAfter(id) == id + 1

RaceStoreSize(t) ==
    /\ RaceFrame
    /\ threads[t].pc = "store_size"
    /\ m_size' = SizeAfter(threads[t].id)
    /\ threads' = [threads EXCEPT ![t].pc = "store_bucket"]
    /\ UNCHANGED <<m_prober, m_data, m_block, interleaved>>

\* m_data[it] = (the value of m_size++)
RaceStoreBucket(t) ==
    /\ RaceFrame
    /\ threads[t].pc = "store_bucket"
    /\ m_data' = [m_data EXCEPT ![threads[t].it + 1] = threads[t].id]
    /\ threads' = [threads EXCEPT ![t].pc = "load_at"]
    /\ UNCHANGED <<m_prober, m_size, m_block, interleaved>>

\* at = m_data[it]
RaceLoadAt(t) ==
    /\ RaceFrame
    /\ threads[t].pc = "load_at"
    /\ threads' = [threads EXCEPT ![t].pc = "set",
                                  ![t].at = m_data[threads[t].it + 1]]
    /\ UNCHANGED <<m_prober, m_size, m_data, m_block, interleaved>>

\* m_block.set(at, key.data.begin(), key.data.end(), Value(1)); return false
RaceSet(t) ==
    /\ RaceFrame
    /\ threads[t].pc = "set"
    /\ m_block' = BlockSet(m_block, threads[t].at, threads[t].key,
                           InitialValue)
    /\ threads' = [threads EXCEPT ![t].pc = "done", ![t].ret = FALSE]
    /\ UNCHANGED <<m_prober, m_size, m_data, interleaved>>

\* no call of is_sorted
CheckIdle ==
    sorted_check = [range |-> <<>>, C |-> "prefix", pc |-> "idle", it |-> 0,
                    i |-> 0, prev_ptr |-> <<>>, ret |-> TRUE, cerr |-> <<>>]

\* the non-empty ranges of records, in any order and with repetitions
Ranges == UNION {[1..len -> Records] : len \in 1..MaxLen}

\* is_sorted<C>(begin, end) is called on a range
CheckInitState ==
    \E range \in Ranges, C \in Comparators :
        sorted_check = [range |-> range, C |-> C, pc |-> "idle", it |-> 0,
                        i |-> 0, prev_ptr |-> <<>>, ret |-> TRUE,
                        cerr |-> <<>>]

\* is_sorted up to the loop: prev holds *begin, ++it, ret = true, i = 1
IsSortedBegin ==
    /\ UNCHANGED <<acc_vars, codec_vars, race_vars>>
    /\ sorted_check.pc = "idle"
    /\ sorted_check.range # <<>>
    /\ sorted_check' = [sorted_check EXCEPT
           !.pc = "loop",
           !.prev_ptr = sorted_check.range[1],
           !.it = 2,
           !.ret = TRUE,
           !.i = 1]

\* the messages of one round of the loop for the comparison result cmp
Messages(cmp, i) ==
    IF cmp = 0 THEN <<[at |-> i, text |-> "Repeated ngrams"]>>
    ELSE IF cmp > 0 THEN <<[at |-> i, text |-> ""]>>
    ELSE <<>>

\* one round of for (size_t i = 1; it != end; ++i, ++it)
IsSortedStep ==
    /\ UNCHANGED <<acc_vars, codec_vars, race_vars>>
    /\ sorted_check.pc = "loop"
    /\ sorted_check.it <= Len(sorted_check.range)
    /\ LET curr_ptr == sorted_check.range[sorted_check.it]
           cmp == Compare(sorted_check.C, sorted_check.prev_ptr.ngram,
                          curr_ptr.ngram)
       IN sorted_check' = [sorted_check EXCEPT
              !.cerr = sorted_check.cerr \o Messages(cmp, sorted_check.i),
              !.ret = IF cmp > 0 THEN FALSE ELSE sorted_check.ret,
              !.prev_ptr = curr_ptr,
              !.i = sorted_check.i + 1,
              !.it = sorted_check.it + 1]

\* it == end: return ret
IsSortedReturn ==
    /\ UNCHANGED <<acc_vars, codec_vars, race_vars>>
    /\ sorted_check.pc = "loop"
    /\ sorted_check.it > Len(sorted_check.range)
    /\ sorted_check' = [sorted_check EXCEPT !.pc = "returned"]

vars == <<acc_vars, codec_vars, check_vars, race_vars>>

Init == AccInitState /\ CodecIdle /\ NoRun /\ CheckIdle /\ RaceIdle

AccIdle ==
    /\ LSD_RADIX_SORT = FALSE
    /\ hash_seed = [mul |-> 0, off |-> 0]
    /\ AccInitState

InitCodec == AccIdle /\ CodecInitState /\ CheckIdle /\ RaceIdle

InitSorted == AccIdle /\ CodecIdle /\ NoRun /\ CheckInitState /\ RaceIdle

Next ==
    \/ \E capacity \in 1..MaxCap : AccInit(capacity)
    \/ \E key \in Keys : FindOrInsert(key)
    \/ Increment
    \/ \E cmp \in Comparators : Sort(cmp)

Spec == Init /\ [][Next]_vars

\* the driver hands the sorted accumulator to the writer:
\* write_block(os, begin(), end(), size(), statistics())
HandOver ==
    /\ UNCHANGED <<acc_vars, check_vars, race_vars>>
    /\ phase = "sorted"
    /\ wpc = "idle"
    /\ L = <<>>
    /\ m_comparator' = sort_cmp
    /\ L' = Enumerate
    /\ n' = size
    /\ stats' = m_block.stats
    /\ UNCHANGED <<wpc, w, v, m_buffer, ngrams_in_block, written, encoded,
                   begin, prev_ptr, os, enc, rblk, block, fc_it, decoded>>

\* counting, sorting and writing one accumulator
NextPipeline ==
    \/ Next
    \/ HandOver
    \/ (L # <<>> /\ WriteBlockBegin)
    \/ WriteBlockStep
    \/ WriteBlockEnd

SpecPipeline == Init /\ [][NextPipeline]_vars

\* the reader on the first block of a stream, opened with any record count
\* and word width; an advance that would read past the memory of the block
\* is left out
NextReader ==
    \/ WriteBlockBegin
    \/ WriteBlockStep
    \/ WriteBlockEnd
    \/ /\ rblk = 0
       /\ \E count \in 1..(MaxLen + 1), ww \in 0..MaxHeaderWidth :
              ReadBlockAs(count, ww, os[2].val)
    \/ (ReadNext /\ ~fc_it'.overrun)

SpecReader == InitCodec /\ [][NextReader]_vars

\* the sort-order check on a range of records
NextSorted ==
    \/ IsSortedBegin
    \/ IsSortedStep
    \/ IsSortedReturn

SpecSorted == InitSorted /\ [][NextSorted]_vars

\* one find_or_insert call per thread on an initialised accumulator, the
\* steps of the calls in any order
NextRace ==
    \/ \E capacity \in 1..MaxCap : AccInit(capacity)
    \/ \E t \in Threads, key \in Keys : RaceBegin(t, key)
    \/ \E t \in Threads : RaceStart(t)
    \/ \E t \in Threads : RaceTest(t)
    \/ \E t \in Threads : RaceEqual(t)
    \/ \E t \in Threads : RaceAdvance(t)
    \/ \E t \in Threads : RaceLoadSize(t)
    \/ \E t \in Threads : RaceStoreSize(t)
    \/ \E t \in Threads : RaceStoreBucket(t)
    \/ \E t \in Threads : RaceLoadAt(t)
    \/ \E t \in Threads : RaceSet(t)

SpecRace == Init /\ [][NextRace]_vars

\* the accumulator over several lifetimes
NextLife ==
    \/ Next
    \/ ReleaseHashIndex
    \/ Release

SpecLife == Init /\ [][NextLife]_vars

NextCodec ==
    \/ WriteBlockBegin
    \/ WriteBlockStep
    \/ WriteBlockEnd
    \/ ReadBlock
    \/ ReadNext

SpecCodec == InitCodec /\ [][NextCodec]_vars

(***************************************************************************)
(* Properties of the accumulator, checked under Spec.                      *)
(***************************************************************************)
\* call i ended in the table-full outcome
TableFull(i) == calls[i].existed = FALSE /\ calls[i].at = invalid_ngram_id
NoTableFull == \A i \in 1..Len(calls) : ~TableFull(i)
KeysPassed == {calls[i].key : i \in 1..Len(calls)}
\* number of calls that passed key
Occurrences(key) == Cardinality({i \in 1..Len(calls) : calls[i].key = key})
AllOccupied ==
    buckets > 0 /\ \A b \in 1..buckets : m_data[b] # invalid_ngram_id

\* C2 (hash uniqueness): as long as no call hit table-full, no two stored
\* entries have equal n-grams and size() is the number of distinct n-grams
\* passed to find_or_insert.
C2_HashUniqueness ==
    NoTableFull =>
        /\ \A i, j \in 0..(size - 1) :
              i # j => Pointer(i).ngram # Pointer(j).ngram
        /\ size = Cardinality(KeysPassed)

\* a repeated n-gram among several distinct ones, after collisions
C2_Witness ==
    /\ NoTableFull
    /\ Len(calls) = MaxCalls
    /\ size = 3
    /\ hash_seed.mul = 0

C4_StepOnFull ==
    (/\ AllOccupied
     /\ Len(calls') = Len(calls) + 1
     /\ \A id \in 0..(size - 1) :
           Pointer(id).ngram # calls'[Len(calls')].key)
    => /\ at' = invalid_ngram_id
       /\ ret' = FALSE
       /\ m_size' = m_size
       /\ m_data' = m_data
       /\ m_block' = m_block

C4_StepKeepsEntries ==
    Len(calls') = Len(calls) + 1 =>
        \A id \in 0..(size - 1) : m_block'.memory[id + 1] = Pointer(id)

C4_ProbeFull == [][C4_StepOnFull /\ C4_StepKeepsEntries]_vars

\* the last call ended in table-full on a table of more than one bucket
C4_Witness ==
    /\ calls # <<>>
    /\ TableFull(Len(calls))
    /\ AllOccupied
    /\ buckets > 1

\* C7 (payload equals occurrence count): a stored n-gram's payload is the
\* number of calls that passed it, the call whose increment by the driver is
\* still pending not counted: find_or_insert stores 1 with a new n-gram and
\* leaves the payloads alone when the n-gram exists.
PendingIncrement(id) == IF phase = "incr" /\ at = id THEN 1 ELSE 0

C7_PayloadIsCount ==
    phase \in {"ready", "incr"} =>
        \A id \in 0..(size - 1) :
            Pointer(id).value =
                Occurrences(Pointer(id).ngram) - PendingIncrement(id)

\* an n-gram passed three times next to one passed once
C7_Witness ==
    /\ phase = "ready"
    /\ size = 2
    /\ \E id \in 0..(size - 1) : Pointer(id).value = 3

\* C8 (insertion stability): the call that inserts the (k+1)-th distinct
\* n-gram returns id k, a call for a stored n-gram returns the id of its
\* first insertion, and the ids handed out are exactly 0..size()-1.
StoredBefore(i) == {calls[j].key : j \in {j \in 1..(i - 1) : ~TableFull(j)}}
FirstCall(key) ==
    CHOOSE i \in 1..Len(calls) :
        /\ calls[i].key = key /\ ~TableFull(i)
        /\ \A j \in 1..(i - 1) : ~(calls[j].key = key /\ ~TableFull(j))

C8_InsertionStability ==
    /\ \A i \in 1..Len(calls) :
          /\ (~calls[i].existed /\ ~TableFull(i)) =>
                calls[i].at = Cardinality(StoredBefore(i))
          /\ calls[i].existed =>
                /\ calls[i].key \in StoredBefore(i)
                /\ calls[i].at = calls[FirstCall(calls[i].key)].at
    /\ {calls[i].at : i \in {j \in 1..Len(calls) : ~TableFull(j)}}
          = 0..(size - 1)
    /\ phase \in {"ready", "incr"} =>
          \A i \in 1..Len(calls) :
              ~TableFull(i) => Pointer(calls[i].at).ngram = calls[i].key

\* three distinct n-grams inserted, then the first one found again
C8_Witness ==
    /\ Len(calls) = 4
    /\ size = 3
    /\ calls[4].existed
    /\ calls[4].at = 0

\* C9 (sort is a permutation): the iteration after sort holds every record
\* (n-gram with its payload) as often as the record store held it before.
CountIn(seq, r) == Cardinality({k \in 1..Len(seq) : seq[k] = r})

C9_SortPermutation ==
    phase = "sorted" =>
        /\ Len(Enumerate) = Len(before_sort)
        /\ \A k \in 1..Len(before_sort) :
              CountIn(Enumerate, before_sort[k]) = 1
                  /\ CountIn(before_sort, before_sort[k]) = 1

\* a sort of three entries with different payloads that changed the order
C9_Witness ==
    /\ phase = "sorted"
    /\ size >= 2
    /\ Enumerate # before_sort
    /\ \E k \in 1..size : Enumerate[k].value > 1

(***************************************************************************)
(* Properties of the codec, checked under SpecCodec.                       *)
(***************************************************************************)
RECURSIVE TotalBytes(_)
TotalBytes(chunks) ==
    IF chunks = <<>> THEN 0
    ELSE Head(chunks).bytes + TotalBytes(Tail(chunks))

\* the reader went through every block of the finished stream
ReadingDone ==
    wpc = "done" /\ rblk = Saved /\ fc_it.m_pos = fc_it.m_size

\* record k of the run opens a block
FirstOfBlock(k) == k = 1 \/ enc[k - 1].block # enc[k].block
\* the record of the run that opens block b
FirstIndex(b) == CHOOSE k \in 1..Len(enc) : enc[k].block = b /\ FirstOfBlock(k)
\* the bits of block b: saved to os, or still in the buffer
BlockMemory(b) ==
    IF b <= Saved THEN os[DataIndex(b)]
    ELSE Data(m_buffer.bits, BLOCK_BYTES, 0)

\* C1 (codec round-trip): iterating the blocks written from a strictly
\* ordered run L yields the records of L, in order, n-grams and payloads;
\* every record yielded so far is the record of L at that position, and
\* once all blocks are read the records yielded are exactly L.
C1_RoundTrip ==
    /\ Len(decoded) <= Len(L)
    /\ \A k \in 1..Len(decoded) : decoded[k].rec = L[k]
    /\ ReadingDone => Len(decoded) = Len(L)

\* a run in context order read back whole, with a record sharing N-1
\* components with its predecessor and one sharing fewer, but some
C1_Witness ==
    /\ ReadingDone
    /\ m_comparator = "context"
    /\ Len(L) = MaxLen
    /\ \E k \in 1..Len(enc) : enc[k].lcp = N - 1
    /\ \E k \in 1..Len(enc) : enc[k].lcp > 0 /\ enc[k].lcp < N - 1

ExplicitAt(mem, pos, rec, ww, vv) ==
    /\ \A i \in 0..(N - 1) :
          BitsValue(mem, pos + i * ww, ww) = rec.ngram[i + 1]
    /\ BitsValue(mem, pos + N * ww, vv) = rec.value

C10_BlockBoundary ==
    /\ \A k \in 1..Len(enc) :
          IF FirstOfBlock(k)
          THEN /\ enc[k].lcp = -1
               /\ enc[k].start = 0
               /\ ExplicitAt(BlockMemory(enc[k].block), 0, L[k], w, v)
          ELSE /\ enc[k].lcp = Lcp(m_comparator, L[k].ngram, L[k - 1].ngram)
               /\ BitsValue(BlockMemory(enc[k].block), enc[k].start, m_l)
                      = enc[k].lcp
    /\ (rblk > 0 /\ fc_it.m_pos = 0 /\ fc_it.m_size > 0) =>
          /\ fc_it.lcp = -1
          /\ fc_it.pos = N * block.m_w + block.m_v
          /\ ~fc_it.overrun
          /\ FcDeref(fc_it) = L[FirstIndex(rblk)]

\* the reader stands on the opening record of the second block of a run,
\* a record that shares components with its predecessor
C10_Witness ==
    /\ rblk = 2
    /\ fc_it.m_pos = 0
    /\ Len(decoded) >= 2
    /\ Lcp(m_comparator, L[FirstIndex(2)].ngram,
           L[FirstIndex(2) - 1].ngram) > 0


\* number of records of the run that were encoded into block b
RecordsIn(b) == Cardinality({k \in 1..Len(enc) : enc[k].block = b})
\* the record count saved in front of the bits of block b
StoredCount(b) == os[DataIndex(b) - 1].val

RECURSIVE SumCounts(_)
SumCounts(b) == IF b = 0 THEN 0 ELSE StoredCount(b) + SumCounts(b - 1)

\* C11 (record count preservation): the count saved with every block is the
\* number of records encoded into that block and is at least 1, and once
\* write_block has returned the counts of its blocks sum to n.
C11_RecordCount ==
    /\ \A b \in 1..Saved :
          StoredCount(b) = RecordsIn(b) /\ StoredCount(b) >= 1
    /\ wpc = "done" => SumCounts(Saved) = n

\* a run written as a block of two records followed by a block of one
C11_Witness ==
    /\ wpc = "done"
    /\ Saved = 2
    /\ StoredCount(1) = 2
    /\ StoredCount(2) = 1


\* the lcp field of record k of the run, as it stands in the bits of its block
LcpField(k) == BitsValue(BlockMemory(enc[k].block), enc[k].start, m_l)

\* C13 (lcp bound): the lcp field of every record that does not open a block
\* holds a value in 0..N-1, and every lcp the reader decodes from the blocks
\* of the writer is below N.
C13_LcpBound ==
    /\ \A k \in 1..Len(enc) :
          ~FirstOfBlock(k) => (LcpField(k) >= 0 /\ LcpField(k) < N)
    /\ \A k \in 1..Len(decoded) : decoded[k].lcp < N
    /\ fc_it.lcp < N

\* the reader decoded a record sharing N-1 components with its predecessor
\* and a record sharing none
C13_Witness ==
    /\ \E k \in 1..Len(decoded) : decoded[k].lcp = N - 1
    /\ \E k \in 1..Len(decoded) : decoded[k].lcp = 0


\* number of bits of the encoding of record k of the run
RecordBits(k) ==
    IF FirstOfBlock(k) THEN N * w + v
    ELSE m_l + (IF enc[k].lcp = 0 THEN N ELSE N - enc[k].lcp) * w + v
\* first bit after the encoding of record k in its block
RecordEnd(k) == enc[k].start + RecordBits(k)

\* C16 (flush policy): the buffer never holds more than BLOCK_BITS bits;
\* every record lies within one block, right behind its predecessor; a
\* record opens a new block exactly when fewer than m_l + N*w + v bits were
\* left in the block of its predecessor.
C16_FlushPolicy ==
    /\ m_buffer.size <= BLOCK_BITS
    /\ Len(m_buffer.bits) <= BLOCK_BITS
    /\ \A k \in 1..Len(enc) :
          /\ RecordEnd(k) <= BLOCK_BITS
          /\ k > 1 =>
                IF FirstOfBlock(k)
                THEN /\ enc[k].block = enc[k - 1].block + 1
                     /\ BLOCK_BITS - RecordEnd(k - 1) < MaxRecordSize(w, v)
                ELSE /\ enc[k].start = RecordEnd(k - 1)
                     /\ BLOCK_BITS - RecordEnd(k - 1) >= MaxRecordSize(w, v)
    /\ wpc # "idle" => m_buffer.size = RecordEnd(Len(enc))

\* a block was closed with bits to spare, too few for a worst-case record
C16_Witness ==
    \E k \in 2..Len(enc) :
        /\ FirstOfBlock(k)
        /\ RecordEnd(k - 1) < BLOCK_BITS
        /\ ~FirstOfBlock(k - 1)


\* the last record of the run that was encoded into block b
LastIndex(b) == CHOOSE k \in 1..Len(enc) :
                    enc[k].block = b /\ (k = Len(enc) \/ enc[k + 1].block # b)
\* the positions of block b the iterator was dereferenced at
Yielded(b) == Cardinality({k \in 1..Len(decoded) : decoded[k].block = b})

\* C19 (end of block): while a block of n records is iterated, the iterator
\* at position j < n has consumed the bits up to the end of record j and
\* not more; it compares equal to end() after n dereferences, having
\* consumed the bits of the n records only, and it never reads past the
\* memory of the block.
C19_EndOfBlock ==
    rblk > 0 =>
        /\ fc_it.m_size = RecordsIn(rblk)
        /\ fc_it.m_pos <= fc_it.m_size
        /\ Yielded(rblk) = fc_it.m_pos
        /\ ~fc_it.overrun
        /\ fc_it.pos = IF fc_it.m_pos < fc_it.m_size
                       THEN RecordEnd(FirstIndex(rblk) + fc_it.m_pos)
                       ELSE RecordEnd(LastIndex(rblk))

\* the iterator reached end() of a block of two records that the flush
\* policy closed, whose padding holds stale bits
C19_Witness ==
    /\ rblk = 1
    /\ Saved = 2
    /\ fc_it.m_size = 2
    /\ fc_it.m_pos = fc_it.m_size
    /\ block.m_memory.pad = 1
    /\ RecordEnd(LastIndex(1)) < BLOCK_BITS


\* the capacity the accumulator was initialised with
Capacity == m_block.records

\* C20 (correct sizing guarantees space): as long as the calls made on an
\* accumulator of capacity c passed at most c distinct n-grams, none of them
\* ended in table-full.
C20_SizingGuaranteesSpace ==
    (phase # "constructed" /\ Cardinality(KeysPassed) <= Capacity)
        => NoTableFull

\* as many distinct n-grams as the capacity, all with the same hint, and
\* repeated calls, on a table of more than one bucket
C20_Witness ==
    /\ phase = "ready"
    /\ Capacity > 1
    /\ Cardinality(KeysPassed) = Capacity
    /\ Len(calls) = MaxCalls
    /\ hash_seed.mul = 0


\* C14 (id stability within a lifetime): the id a call returned designates,
\* through pointer(id), the n-gram that call passed, in every later state of
\* the accumulator, and after sort(cmp) the record it designated before.
C14_IdStability ==
    \A i \in 1..Len(calls) :
        ~TableFull(i) =>
            /\ Pointer(calls[i].at).ngram = calls[i].key
            /\ phase = "sorted" =>
                  Pointer(calls[i].at) = before_sort[calls[i].at + 1]


\* C15 (idempotent release): a released accumulator holds what a default-
\* constructed one holds (size 0, no buckets, empty record store and index),
\* so that a further release() changes nothing, and init on it gives the
\* accumulator that init gives on a new one: no entry, every bucket empty,
\* ids handed out from 0 on in first-insertion order.
C15_ReleaseIsFresh ==
    /\ phase = "constructed" =>
          /\ size = 0 /\ buckets = 0 /\ m_num_bytes = 0
          /\ m_block = DefaultBlock
          /\ m_index = <<>>
    /\ (phase = "ready" /\ calls = <<>>) =>
          /\ size = 0
          /\ buckets = Buckets(Capacity)
          /\ \A b \in 1..buckets : m_data[b] = invalid_ngram_id
          /\ m_block.memory = <<>>
          /\ m_block.stats = DefaultBlock.stats
          /\ m_index = <<>>
    /\ (phase \in {"ready", "incr"} /\ NoTableFull) =>
          \A i \in 1..Len(calls) :
              /\ calls[i].existed = (calls[i].key \in StoredBefore(i))
              /\ ~calls[i].existed =>
                    calls[i].at = Cardinality(StoredBefore(i))

\* an accumulator initialised again, with another capacity, after the
\* release of one that held several entries
C15_Witness ==
    /\ phase = "ready"
    /\ calls = <<>>
    /\ at > 0
    /\ Capacity = 1


\* C12 (width sufficiency): every word id of the run being written is below
\* 2^w and every payload below 2^v, for the w and v write_block derived
\* from the statistics it was given.
C12_WidthSufficiency ==
    wpc # "idle" =>
        \A k \in 1..Len(L) :
            /\ L[k].value < Pow2(v)
            /\ \A i \in 1..N : L[k].ngram[i] < Pow2(w)


\* the header of the block is malformed: its widths imply a worst-case
\* record larger than a block, or its record count exceeds what the bytes of
\* the block can hold even with the shortest encodings
Malformed(blk) ==
    \/ MaxRecordSize(blk.m_w, blk.m_v) > BLOCK_BITS
    \/ N * blk.m_w + blk.m_v
          + (blk.m_size - 1) * (blk.m_l + blk.m_w + blk.m_v)
            > 8 * blk.m_memory.bytes

\* C18 (malformed block rejection): the reader yields no record from a
\* block whose header is malformed.
C18_MalformedRejected ==
    (rblk > 0 /\ Malformed(block)) => Yielded(rblk) = 0


(***************************************************************************)
(* Properties of the sort-order check, checked under SpecSorted.           *)
(***************************************************************************)
\* adjacent records k and k + 1 of the range, compared by the comparator
AdjacentCompare(k) ==
    Compare(sorted_check.C, sorted_check.range[k].ngram,
            sorted_check.range[k + 1].ngram)

\* C17 (sort-order check rejects duplicates): is_sorted returns true only if
\* compare(prev, curr) < 0 for every adjacent pair of the range; it reports
\* failure when two adjacent records compare equal as well as when an
\* adjacent pair is out of order.
C17_RejectsDuplicates ==
    (sorted_check.pc = "returned" /\ sorted_check.ret) =>
        \A k \in 1..(Len(sorted_check.range) - 1) : AdjacentCompare(k) < 0


(***************************************************************************)
(* Consistency of the bucket table, checked under Spec.                    *)
(***************************************************************************)
\* the buckets that hold an id
Occupied == {b \in 1..buckets : m_data[b] # invalid_ngram_id}

\* the bucket (0-based) at which the probe for the n-gram of id starts
StartOf(id) == ProberDeref(ProberInit(Hint(Pointer(id).ngram), buckets))

\* every bucket the prober visits from state p before bucket target holds
\* an id
RECURSIVE PathOccupied(_, _)
PathOccupied(p, target) ==
    IF ProberDeref(p) = target THEN TRUE
    ELSE /\ m_data[ProberDeref(p) + 1] # invalid_ngram_id
         /\ PathOccupied(ProberNext(p), target)

\* C22 (bucket-table consistency): in every state reached by init and
\* find_or_insert, every bucket holds the empty sentinel or an id below
\* size(), every id below size() is in exactly one bucket, so that the
\* occupied buckets are size() many, and all buckets on the probe sequence
\* of a stored n-gram, from the start given by its hint up to its own
\* bucket, are occupied.
C22_BucketTable ==
    phase \in {"ready", "incr"} =>
        /\ \A b \in 1..buckets :
              m_data[b] = invalid_ngram_id \/ m_data[b] \in 0..(size - 1)
        /\ \A id \in 0..(size - 1) :
              Cardinality({b \in 1..buckets : m_data[b] = id}) = 1
        /\ Cardinality(Occupied) = size
        /\ \A b \in Occupied :
              PathOccupied(ProberInit(Hint(Pointer(m_data[b]).ngram), buckets),
                           b - 1)

\* a full table of three buckets, filled by hints that differ, in which an
\* n-gram sits in a bucket other than the one its probe starts at, after a
\* call that found its n-gram
C22_Witness ==
    /\ phase = "incr"
    /\ buckets = 3
    /\ size = 3
    /\ hash_seed.mul = 1
    /\ \E b \in Occupied : StartOf(m_data[b]) # b - 1


(***************************************************************************)
(* Properties of find_or_insert called by several threads, checked under   *)
(* SpecRace.                                                               *)
(***************************************************************************)
\* no call is under way
Quiescent == \A t \in Threads : ~Running(t)
\* the threads whose call returned an id
Returned == {t \in Threads : threads[t].pc = "done"
                              /\ threads[t].at # invalid_ngram_id}

\* the uniqueness invariant of the accumulator with respect to the calls
\* that returned: every id below size() has a written record and sits in
\* exactly one bucket, no two ids hold the same n-gram, the id a call
\* returned holds the n-gram the call passed, and size() is the number of
\* distinct n-grams of these calls
Uniqueness ==
    /\ \A i \in 0..(size - 1) :
          /\ ~Unwritten(i)
          /\ Cardinality({b \in 1..buckets : m_data[b] = i}) = 1
    /\ \A i, j \in 0..(size - 1) :
          (i # j /\ ~Unwritten(i) /\ ~Unwritten(j))
              => Pointer(i).ngram # Pointer(j).ngram
    /\ \A t \in Returned :
          /\ threads[t].at \in 0..(size - 1)
          /\ ~Unwritten(threads[t].at)
          /\ Pointer(threads[t].at).ngram = threads[t].key
    /\ size = Cardinality({threads[t].key : t \in Returned})

\* the same n-gram is stored under two ids
SameNgramTwoIds ==
    \E i, j \in 0..(size - 1) :
        /\ i # j /\ ~Unwritten(i) /\ ~Unwritten(j)
        /\ Pointer(i).ngram = Pointer(j).ngram
\* one id was returned to two calls that passed different n-grams
IdClaimedTwice ==
    \E t, u \in Returned :
        /\ threads[t].key # threads[u].key
        /\ threads[t].at = threads[u].at
\* a call inserted its n-gram and the id it returned no longer holds it, or
\* no bucket holds the id
InsertLost ==
    \E t \in Returned :
        /\ ~threads[t].ret
        /\ \/ Unwritten(threads[t].at)
           \/ Pointer(threads[t].at).ngram # threads[t].key
           \/ \A b \in 1..buckets : m_data[b] # threads[t].at

\* C21 (no concurrent mutation): when the find_or_insert calls of the
\* threads ran one after the other, the uniqueness invariant holds whenever
\* no call is under way; when their steps interleave, a state is reached in
\* which the same n-gram is stored under two ids.
C21_SerialKeepsUniqueness ==
    (phase = "ready" /\ Quiescent /\ ~interleaved) => Uniqueness

\* both calls returned after interleaved steps, they passed the same n-gram
\* and it is stored under two ids
C21_Witness ==
    /\ \A t \in Threads : threads[t].pc = "done"
    /\ interleaved
    /\ threads[1].key = threads[2].key
    /\ SameNgramTwoIds

====
